---- MODULE Spec2Model ----
(***************************************************************************)
(* Model of temp_to_rgb.py: black-body temperature (or lamp voltage) to    *)
(* CIE XYZ and RGB, calibrated against a reference luminance.              *)
(*                                                                         *)
(* Python floats are IEEE-754 binary floating point, rounded to nearest,   *)
(* ties to even.  The model keeps that arithmetic and shortens the         *)
(* significand from 53 bits to Prec bits.  The exponent range is not       *)
(* bounded: the inputs below stay far from overflow and underflow.         *)
(***************************************************************************)
EXTENDS Integers, Sequences, FiniteSets, TLC

\* Bits of significand of a float (53 in CPython).
Prec == 11

Pow2(n) == 2 ^ n

Abs(n) == IF n < 0 THEN -n ELSE n

Sign(n) == IF n < 0 THEN -1 ELSE IF n = 0 THEN 0 ELSE 1

\* Number of bits of the natural number n, for n < 2^4, 2^8, 2^16, 2^32.
Bits4(n) ==
    IF n < 4 THEN (IF n < 2 THEN n ELSE 2) ELSE (IF n < 8 THEN 3 ELSE 4)

Bits8(n) == IF n < 16 THEN Bits4(n) ELSE 4 + Bits4(n \div 16)

Bits16(n) == IF n < 256 THEN Bits8(n) ELSE 8 + Bits8(n \div 256)

BitLen(n) == IF n < 65536 THEN Bits16(n) ELSE 16 + Bits16(n \div 65536)

(***************************************************************************)
(* A finite float is <<m, e>>, its value m * 2^e, with m = 0 (and e = 0)   *)
(* or 2^(Prec-1) <= |m| < 2^Prec.  The three non-finite floats carry an    *)
(* exponent no finite float has.                                           *)
(***************************************************************************)
Zero == <<0, 0>>
PosInf == <<1, 1000000>>
NegInf == <<-1, 1000000>>
NaN == <<0, 1000000>>

\* math.isfinite
IsFinite(a) == a[2] # 1000000

\* 1 when q + r/(2 * half) rounds up to q + 1 (to nearest, ties to even)
RoundUp(q, r, half) == IF r > half \/ (r = half /\ q % 2 = 1) THEN 1 ELSE 0

\* The natural number a without its low `shift` bits, rounded.
RoundShift(a, shift) ==
    (a \div Pow2(shift)) + RoundUp(a \div Pow2(shift), a % Pow2(shift), Pow2(shift - 1))

\* s * m * 2^e with m <= 2^Prec, as a float.
Renorm(s, m, e) ==
    IF m = Pow2(Prec) THEN <<s * Pow2(Prec - 1), e + 1>> ELSE <<s * m, e>>

\* The float nearest to n * 2^e, n a non-zero integer of `bits` bits.
RoundBits(n, e, bits) ==
    IF bits <= Prec THEN <<n * Pow2(Prec - bits), e - (Prec - bits)>>
    ELSE Renorm(Sign(n), RoundShift(Abs(n), bits - Prec), e + bits - Prec)

\* The float nearest to n * 2^e (n an integer), ties to even.
RoundInt(n, e) == IF n = 0 THEN Zero ELSE RoundBits(n, e, BitLen(Abs(n)))

\* The float of an integer literal.
F(n) == RoundInt(n, 0)

FNeg(a) == IF a = NaN THEN NaN ELSE <<-a[1], a[2]>>

\* hi + lo for finite non-zero floats, hi of the larger exponent
AddAligned(hi, lo) ==
    IF hi[2] - lo[2] > Prec + 1 THEN hi
    ELSE RoundInt(hi[1] * Pow2(hi[2] - lo[2]) + lo[1], lo[2])

\* x + y
FAdd(a, b) ==
    IF a = NaN \/ b = NaN THEN NaN
    ELSE IF ~IsFinite(a) /\ ~IsFinite(b) THEN (IF a = b THEN a ELSE NaN)
    ELSE IF ~IsFinite(a) THEN a
    ELSE IF ~IsFinite(b) THEN b
    ELSE IF a = Zero THEN b
    ELSE IF b = Zero THEN a
    ELSE IF a[2] >= b[2] THEN AddAligned(a, b)
    ELSE AddAligned(b, a)

\* x - y
FSub(a, b) == FAdd(a, FNeg(b))

\* x * y
FMul(a, b) ==
    IF a = NaN \/ b = NaN THEN NaN
    ELSE IF ~IsFinite(a) \/ ~IsFinite(b)
         THEN (IF a = Zero \/ b = Zero THEN NaN
               ELSE IF Sign(a[1]) * Sign(b[1]) > 0 THEN PosInf ELSE NegInf)
    ELSE IF a = Zero \/ b = Zero THEN Zero
    ELSE RoundInt(a[1] * b[1], a[2] + b[2])

\* n / d for naturals n and d > 0, doubled, its last bit set when the
\* division leaves a remainder (the bit that keeps the rounding exact)
StickyQuot(n, d) == 2 * (n \div d) + (IF n % d = 0 THEN 0 ELSE 1)

\* x / y for finite x and finite non-zero y
FQuot(a, b) ==
    IF a = Zero THEN Zero
    ELSE RoundInt(Sign(a[1]) * Sign(b[1])
                      * StickyQuot(Abs(a[1]) * Pow2(Prec + 1), Abs(b[1])),
                  a[2] - b[2] - Prec - 2)

\* x / y where y is a numpy float64: no exception, inf or nan on y = 0
FDivNp(a, b) ==
    IF a = NaN \/ b = NaN THEN NaN
    ELSE IF ~IsFinite(a) /\ ~IsFinite(b) THEN NaN
    ELSE IF ~IsFinite(a) THEN (IF Sign(a[1]) * Sign(b[1]) >= 0 THEN PosInf ELSE NegInf)
    ELSE IF ~IsFinite(b) THEN Zero
    ELSE IF b = Zero
         THEN (IF a = Zero THEN NaN ELSE IF a[1] > 0 THEN PosInf ELSE NegInf)
    ELSE FQuot(a, b)

\* x < y
FLt(a, b) ==
    IF a = NaN \/ b = NaN THEN FALSE
    ELSE IF a = b THEN FALSE
    ELSE IF a = NegInf \/ b = PosInf THEN TRUE
    ELSE IF a = PosInf \/ b = NegInf THEN FALSE
    ELSE IF Sign(a[1]) # Sign(b[1]) THEN Sign(a[1]) < Sign(b[1])
    ELSE IF a[1] > 0
         THEN a[2] < b[2] \/ (a[2] = b[2] /\ a[1] < b[1])
         ELSE a[2] > b[2] \/ (a[2] = b[2] /\ a[1] < b[1])

\* x <= y
FLe(a, b) == a # NaN /\ b # NaN /\ (a = b \/ FLt(a, b))

\* x > y
FGt(a, b) == FLt(b, a)

(***************************************************************************)
(* A Python call either returns a value or raises: [err, val], err = ""    *)
(* when it returns.                                                        *)
(***************************************************************************)
Ok(v) == [err |-> "", val |-> v]

Raise(e) == [err |-> e, val |-> Zero]

\* floor(32 * y) for a finite float y
Floor32(y) ==
    IF y[2] + 5 >= 0 THEN y[1] * Pow2(y[2] + 5) ELSE y[1] \div Pow2(-(y[2] + 5))

\* 2^(i/32) * 1024, rounded, i = 0..31: the table of the range reduction
\* by which the model computes the library's exp and pow.
Exp2Table ==
    <<1024, 1046, 1069, 1093, 1117, 1141, 1166, 1192, 1218, 1244, 1272,
      1300, 1328, 1357, 1387, 1417, 1448, 1480, 1512, 1545, 1579, 1614,
      1649, 1685, 1722, 1760, 1798, 1838, 1878, 1919, 1961, 2004>>

\* 32 * log2(1 + (i + 1/2)/32), rounded, i = 0..31
Log2Table ==
    <<1, 2, 3, 5, 6, 7, 9, 10, 11, 12, 13, 14, 15, 16, 17, 18, 19, 20, 21,
      22, 23, 24, 25, 25, 26, 27, 28, 29, 29, 30, 31, 32>>

\* 2^(t/32) for an integer t
Exp2(t) == RoundInt(Exp2Table[(t % 32) + 1], (t \div 32) - 10)

\* log2(e)
Log2e == RoundInt(1477, -10)

\* The largest argument of math.expm1 that does not overflow a double
\* (709.78...), on the grid of the model's floats.
ExpArgMax == RoundInt(1419, -1)

\* expm1(x) where floor(32 * x * log2(e)) = t: x itself where exp(x) - 1
\* is x to the model's precision, else 2^(t/32) - 1.
Expm1Reduced(x, t) == IF t = 0 THEN x ELSE FSub(Exp2(t), F(1))

\* math.expm1(x), x finite: OverflowError above ExpArgMax
expm1(x) ==
    IF FGt(x, ExpArgMax) THEN Raise("OverflowError")
    ELSE Ok(Expm1Reduced(x, Floor32(FMul(x, Log2e))))

\* Planck Constant (J Hz^-1), 6.62607015e-34
h == RoundInt(1762, -121)

\* Speed of Light (m s^-1), 2.99792458e8
c == RoundInt(1144, 18)

\* Boltzman Constant (J K^-1), 1.380649e-23
k_b == RoundInt(1068, -86)

\* pow(wavelength, 5), by repeated multiplication
Pow5(w) == FMul(FMul(FMul(FMul(w, w), w), w), w)

\* Line 19: numerator = 2.0 * h * c * c
numerator == FMul(FMul(FMul(F(2), h), c), c)

\* Line 22: numerator / denominator
PlanckRatio(denominator) ==
    IF denominator = Zero THEN Raise("ZeroDivisionError")
    ELSE Ok(FQuot(numerator, denominator))

\* Lines 20-22, given what math.expm1 returned or raised
PlanckDenominator(wavelength, ex) ==
    IF ex.err # "" THEN ex ELSE PlanckRatio(FMul(Pow5(wavelength), ex.val))

\* Line 20, given wkt = wavelength * k_b * temperature
PlanckExponent(wavelength, wkt) ==
    IF wkt = Zero THEN Raise("ZeroDivisionError")
    ELSE PlanckDenominator(wavelength, expm1(FQuot(FMul(h, c), wkt)))

\* planck(wavelength, temperature), wavelength in metres
planck(wavelength, temperature) ==
    PlanckExponent(wavelength, FMul(FMul(wavelength, k_b), temperature))

\* B_2 of voltage_to_temp: b_2 * filament_length ** -0.384 *
\* filament_radius ** 0.192, a constant of the program (1203.2...).
B_2 == RoundInt(1203, 0)

\* 32 * log2(v), rounded, for a finite float v > 0
Log2x32(v) ==
    32 * (v[2] + Prec - 1)
        + Log2Table[(((v[1] - Pow2(Prec - 1)) * 32) \div Pow2(Prec - 1)) + 1]

\* voltage ** 0.384 for voltage >= 0, as 2^(0.384 * log2(voltage))
Pow0384(v) == IF v = Zero THEN Zero ELSE Exp2((384 * Log2x32(v)) \div 1000)

\* voltage_to_temp(voltage)
voltage_to_temp(voltage) ==
    FMul(B_2, Pow0384(IF FLt(voltage, Zero) THEN FMul(voltage, F(-1)) ELSE voltage))

\* int(n / 2) for an integer n: the quotient truncated toward zero
IntHalf(n) == IF n >= 0 THEN n \div 2 ELSE -((-n) \div 2)

\* sum_value after `for i in range(lo, hi): sum_value += values[2*i - off]`,
\* counting the list from 0
RECURSIVE SumLoop(_, _, _, _, _)
SumLoop(values, i, hi, off, acc) ==
    IF i >= hi THEN acc
    ELSE SumLoop(values, i + 1, hi, off, FAdd(acc, values[2 * i - off + 1]))

\* SimpsonPanels with the weights 4 and 2 exchanged.
SimpsonPanelsSwapped(values, subint_size, num_panels) ==
    IF Len(values) = 0 \/ 2 * num_panels >= Len(values) THEN Raise("IndexError")
    ELSE Ok(FMul(
             FAdd(FAdd(FAdd(values[1], values[2 * num_panels + 1]),
                       FMul(F(2), SumLoop(values, 1, num_panels + 1, 1, Zero))),
                  FMul(F(4), SumLoop(values, 1, num_panels, 0, Zero))),
             FQuot(subint_size, F(3))))

\* Lines 72-86 of simpson
SimpsonPanels(values, subint_size, num_panels) ==
    IF Len(values) = 0 \/ 2 * num_panels >= Len(values) THEN Raise("IndexError")
    ELSE Ok(FMul(
             FAdd(FAdd(FAdd(values[1], values[2 * num_panels + 1]),
                       FMul(F(4), SumLoop(values, 1, num_panels + 1, 1, Zero))),
                  FMul(F(2), SumLoop(values, 1, num_panels, 0, Zero))),
             FQuot(subint_size, F(3))))

\* NumPoints without the drop of the last sample of an even-length list.
NumPointsKeepLast(len) == len

\* Lines 65-68 of simpson: num_points
NumPoints(len) == IF (len - 1) % 2 # 0 THEN len - 1 ELSE len

\* simpson(values, subint_size)
simpson(values, subint_size) ==
    SimpsonPanels(values, subint_size, IntHalf(NumPoints(Len(values))))

\* 1e-9: nm to metres
NmToM == RoundInt(1100, -40)

\* Lines 102-104: x_bar, y_bar, z_bar with one more row appended
Weighted(bars, datum, radiance) ==
    <<Append(bars[1], FMul(datum[2], radiance)),
      Append(bars[2], FMul(datum[3], radiance)),
      Append(bars[3], FMul(datum[4], radiance))>>

\* Lines 97-104 from row i on: <<x_bar, y_bar, z_bar>>, or the first
\* exception planck raises.
RECURSIVE BarsFrom(_, _, _, _)

\* Lines 98-104 for row i, given what planck returned or raised
BarsStep(temperature, data, i, bars, p) ==
    IF p.err # "" THEN p
    ELSE BarsFrom(temperature, data, i + 1, Weighted(bars, data[i], p.val))

BarsFrom(temperature, data, i, bars) ==
    IF i > Len(data) THEN Ok(bars)
    ELSE BarsStep(temperature, data, i, bars,
                  planck(FMul(data[i][1], NmToM), temperature))

\* Lines 113-119, given what the three calls of simpson returned
Tristimulus(x, y, z) ==
    IF x.err # "" THEN x
    ELSE Ok(<<FMul(x.val, F(683)), FMul(y.val, F(683)), FMul(z.val, F(683))>>)

\* Lines 109-119, given the weighted samples
Integrate(data, bars, subint_size) ==
    Tristimulus(simpson(bars[1], subint_size), simpson(bars[2], subint_size),
                simpson(bars[3], subint_size))

\* Lines 106-119, given what the loop over data produced
Integrals(data, bars) ==
    IF bars.err # "" THEN bars
    ELSE IF Len(data) < 2 THEN Raise("IndexError")
    ELSE Integrate(data, bars.val, FSub(data[2][1], data[1][1]))

\* get_xyz_from_temp(temperature, data): <<x, y, z>>
get_xyz_from_temp(temperature, data) ==
    Integrals(data, BarsFrom(temperature, data, 1, <<<<>>, <<>>, <<>>>>))

\* np.linalg.inv of the CIE matrix of xyz_to_rgb, row by row
XyzToRgbMatrix ==
    <<<<RoundInt(1714, -12), RoundInt(-1300, -13), RoundInt(-1357, -14)>>,
      <<RoundInt(-1494, -14), RoundInt(1034, -12), RoundInt(1029, -16)>>,
      <<RoundInt(1931, -21), RoundInt(-1337, -19), RoundInt(1463, -13)>>>>

\* Row i of the product of the inverse matrix and xyz.
RgbRow(i, xyz) ==
    FAdd(FAdd(FMul(XyzToRgbMatrix[i][1], xyz[1]),
              FMul(XyzToRgbMatrix[i][2], xyz[2])),
         FMul(XyzToRgbMatrix[i][3], xyz[3]))

\* xyz_to_rgb(xyz)
xyz_to_rgb(xyz) == <<RgbRow(1, xyz), RgbRow(2, xyz), RgbRow(3, xyz)>>

(***************************************************************************)
(* The inputs of a run: the answers typed at the prompts and the rows of   *)
(* the CMF file as csv.reader yields them, all of them strings.            *)
(***************************************************************************)

\* The numeric literals of the model and the floats they denote.
Literals ==
    [s \in {"0", "1", "2", "6", "7", "50", "100", "500", "600", "700",
            "1000", "1100", "1200", "1500", "1501"} |->
        CASE s = "0" -> Zero [] s = "1" -> F(1) [] s = "2" -> F(2)
          [] s = "6" -> F(6) [] s = "7" -> F(7) [] s = "50" -> F(50)
          [] s = "100" -> F(100) [] s = "500" -> F(500) [] s = "600" -> F(600)
          [] s = "700" -> F(700) [] s = "1000" -> F(1000)
          [] s = "1100" -> F(1100) [] s = "1200" -> F(1200)
          [] s = "1500" -> F(1500) [] s = "1501" -> F(1501)]

\* float(s): ValueError on text that is no number
Float(s) ==
    CASE s \in DOMAIN Literals -> Ok(Literals[s])
      [] s = "-100" -> Ok(F(-100))
      [] s = "0.25" -> Ok(RoundInt(1, -2))
      [] s = "nan" -> Ok(NaN)
      [] s = "inf" -> Ok(PosInf)
      [] s = "-inf" -> Ok(NegInf)
      [] OTHER -> Raise("ValueError")

\* s.lower()
Lower(s) ==
    CASE s = "T" -> "t" [] s = "V" -> "v" [] s = "Voltage" -> "voltage"
      [] OTHER -> s

\* s[0]: IndexError on the empty string
FirstChar(s) ==
    CASE s = "" -> Raise("IndexError")
      [] s = "voltage" -> Ok("v")
      [] OTHER -> Ok(s)

\* A Python name not yet bound (the model does not tell it from []).
None == <<>>

\* The sweep loop is cut after this many samples.
MaxSamples == 6

\* The CMF file has at most this many rows.
MaxRows == 3

\* Simpson's rule is applied to at most this many samples.
MaxLen == 6

VARIABLES
    pc,                     \* where the run is
    answers,                \* what the user types at each prompt
    csv_file,               \* the rows of CIE_xyz_1964_10deg.csv
    voltage_mode,
    min_value, max_value, step_size, reference_x, reference_luminance,
    in_f,                   \* "unopened", "open", "closed"
    next_row,               \* the row data_reader yields next
    data,
    calibration_coefficient,
    cur_value, voltages, temp_xyz_rgb,
    out_f,                  \* the output file: None, or [name, rows]
    printed,                \* what the run printed, prompts aside
    err,                    \* the exception that ended the run, if any
    values, subint_size, result    \* a call of simpson

params == <<min_value, max_value, step_size, reference_x, reference_luminance>>
inputs == <<answers, csv_file>>
loaded == <<in_f, next_row, data>>
sweep == <<calibration_coefficient, cur_value, voltages, temp_xyz_rgb>>
call == <<values, subint_size, result>>
vars == <<pc, inputs, voltage_mode, params, loaded, sweep, out_f, printed, err, call>>

ModeMessage == "Please answer with \"T\" or \"V\"."
ParamsMessage == "Please provide decimal numbers with reasonable values"

\* Lines 140-151: the mode prompt.
ReadMode ==
    /\ pc = "mode"
    /\ LET first == FirstChar(Lower(answers.selection))
       IN  IF first.err = "" /\ first.val \in {"t", "v"}
           THEN /\ voltage_mode' = (first.val = "v")
                /\ pc' = "params"
                /\ UNCHANGED printed
           ELSE /\ voltage_mode' = FALSE
                /\ printed' = Append(printed, ModeMessage)
                /\ pc' = "aborted"
    /\ UNCHANGED <<inputs, params, loaded, sweep, out_f, err, call>>

\* Asserts without the assert on step_size.
AssertsNoStep(p) ==
    /\ FGt(p[1], Zero)
    /\ FGt(p[2], Zero)
    /\ FGt(p[2], p[1])
    /\ FGt(p[4], Zero)
    /\ FGt(p[5], Zero)

\* Lines 161-166: the asserts, on <<min_value, max_value, step_size,
\* reference_x, reference_luminance>>.
Asserts(p) ==
    /\ FGt(p[1], Zero)
    /\ FGt(p[2], Zero)
    /\ FGt(p[3], Zero)
    /\ FGt(p[2], p[1])
    /\ FGt(p[4], Zero)
    /\ FGt(p[5], Zero)

\* Lines 153-170: the five numeric prompts and the asserts on them.
ReadParams ==
    /\ pc = "params"
    /\ LET p == <<Float(answers.min), Float(answers.max), Float(answers.step),
                  Float(answers.ref), Float(answers.lum)>>
           parsed(k) == \A j \in 1..k : p[j].err = ""
           bound(k) == IF parsed(k) THEN p[k].val ELSE None
           asserts == Asserts([k \in 1..5 |-> p[k].val])
       IN  /\ min_value' = bound(1)
           /\ max_value' = bound(2)
           /\ step_size' = bound(3)
           /\ reference_x' = bound(4)
           /\ reference_luminance' = bound(5)
           /\ IF parsed(5) /\ asserts
              THEN pc' = "open" /\ UNCHANGED printed
              ELSE pc' = "aborted" /\ printed' = Append(printed, ParamsMessage)
    /\ UNCHANGED <<inputs, voltage_mode, loaded, sweep, out_f, err, call>>

\* Lines 173-176: open the CMF file.
OpenFile ==
    /\ pc = "open"
    /\ in_f' = "open"
    /\ next_row' = 1
    /\ data' = <<>>
    /\ pc' = "load"
    /\ UNCHANGED <<inputs, voltage_mode, params, sweep, out_f, printed, err, call>>

\* Lines 187-192: a field after cleaning, given what float() returned or
\* raised.
CleanField(f) == IF f.err = "" /\ IsFinite(f.val) THEN f.val ELSE Zero

RECURSIVE CleanFields(_, _)

\* CleanFields without the assert on math.isfinite.
CleanFieldsKeepNonFinite(datum, j) ==
    IF j > Len(datum) THEN datum
    ELSE CleanFields([datum EXCEPT ![j] = IF Float(datum[j]).err = ""
                                          THEN Float(datum[j]).val ELSE Zero],
                     j + 1)

\* Lines 186-192: the fields of a row after cleaning, from field j on.
CleanFields(datum, j) ==
    IF j > Len(datum) THEN datum
    ELSE CleanFields([datum EXCEPT ![j] = CleanField(Float(datum[j]))], j + 1)

\* Lines 179-194: one turn of the loading loop.
LoadRow ==
    /\ pc = "load"
    /\ next_row <= Len(csv_file)
    /\ LET datum == csv_file[next_row]
       IN  IF Len(datum) # 4
           THEN /\ printed' = Append(printed, "Excluding bad datum")
                /\ UNCHANGED data
           ELSE /\ data' = Append(data, CleanFields(datum, 1))
                /\ UNCHANGED printed
    /\ next_row' = next_row + 1
    /\ UNCHANGED <<pc, inputs, voltage_mode, params, in_f, sweep, out_f, err, call>>

\* Line 197: the reader is exhausted; close the file.
CloseFile ==
    /\ pc = "load"
    /\ next_row > Len(csv_file)
    /\ in_f' = "closed"
    /\ pc' = "calibrate"
    /\ UNCHANGED <<inputs, voltage_mode, params, next_row, data, sweep, out_f,
                   printed, err, call>>

\* The coefficient taken from X instead of Y.
CoefficientFromX(luminance, ref_xyz) == FDivNp(luminance, ref_xyz[1])

\* Line 203: reference_luminance / ref_xyz[1], the list counted from 0
CalibrationCoefficient(luminance, ref_xyz) == FDivNp(luminance, ref_xyz[2])

\* Lines 199-208: the calibration coefficient, and the sweep's start.
Calibrate ==
    /\ pc = "calibrate"
    /\ LET ref_temp == IF voltage_mode THEN voltage_to_temp(reference_x)
                       ELSE reference_x
       IN  \E ref_xyz \in {get_xyz_from_temp(ref_temp, data)} :
               IF ref_xyz.err # ""
               THEN /\ err' = ref_xyz.err
                    /\ pc' = "crashed"
                    /\ UNCHANGED sweep
               ELSE /\ calibration_coefficient' =
                           CalibrationCoefficient(reference_luminance, ref_xyz.val)
                    /\ voltages' = <<>>
                    /\ temp_xyz_rgb' = <<>>
                    /\ cur_value' = min_value
                    /\ pc' = "sweep"
                    /\ UNCHANGED err
    /\ UNCHANGED <<inputs, voltage_mode, params, loaded, out_f, printed, call>>

\* Recorded whatever the mode.
RecordAlways(mode, recorded, value) == Append(recorded, value)

\* Lines 219-220: voltages after a turn of the loop
Record(mode, recorded, value) == IF mode THEN Append(recorded, value) ELSE recorded

\* Lines 209-222: one turn of the sweep loop.
SweepStep ==
    /\ pc = "sweep"
    /\ FLe(cur_value, max_value)
    /\ Len(temp_xyz_rgb) < MaxSamples
    /\ \E temp \in {IF voltage_mode THEN voltage_to_temp(cur_value) ELSE cur_value} :
       \E raw \in {get_xyz_from_temp(temp, data)} :
           IF raw.err # ""
           THEN /\ err' = raw.err
                /\ pc' = "crashed"
                /\ UNCHANGED sweep
           ELSE \E xyz \in {<<FMul(raw.val[1], calibration_coefficient),
                                FMul(raw.val[2], calibration_coefficient),
                                FMul(raw.val[3], calibration_coefficient)>>} :
                \E rgb \in {xyz_to_rgb(xyz)} :
                    /\ temp_xyz_rgb' = Append(temp_xyz_rgb, <<temp, xyz, rgb>>)
                    /\ voltages' = Record(voltage_mode, voltages, cur_value)
                    /\ cur_value' = FAdd(cur_value, step_size)
                    /\ UNCHANGED <<pc, err, calibration_coefficient>>
    /\ UNCHANGED <<inputs, voltage_mode, params, loaded, out_f, printed, call>>

\* Lines 246-259: the output row of sample i (counted from 1), or the
\* exception raised building it.
OutputRow(i) ==
    LET row == temp_xyz_rgb[i]
        colour == <<row[1]>> \o row[2] \o row[3]
    IN  IF ~voltage_mode THEN Ok(colour)
        ELSE IF i > Len(voltages) THEN Raise("IndexError")
        ELSE Ok(<<voltages[i]>> \o colour)

\* Lines 225-259: the loop has ended; write the output file.
WriteOutput ==
    /\ pc = "sweep"
    /\ ~FLe(cur_value, max_value)
    /\ LET header == (IF voltage_mode THEN <<"Voltage (V)">> ELSE <<>>)
                     \o <<"Temperature (K)", "X", "Y", "Z", "Red", "Green", "Blue">>
           reference_csv ==
               <<IF voltage_mode THEN "Reference Voltage (V):"
                 ELSE "Reference Temperature (K):",
                 reference_x, "Reference Luminance (lm sr^-1 m^-2):",
                 reference_luminance>>
           n == Len(temp_xyz_rgb)
           bad == {i \in 1..n : OutputRow(i).err # ""}
           stop == IF bad = {} THEN n + 1 ELSE CHOOSE i \in bad : \A j \in bad : i <= j
           rows == <<reference_csv, header>>
                   \o [i \in 1..(stop - 1) |-> OutputRow(i).val]
       IN  /\ out_f' = [name |-> answers.output \o ".csv", rows |-> rows]
           /\ IF bad = {} THEN pc' = "done" /\ UNCHANGED err
              ELSE pc' = "crashed" /\ err' = "IndexError"
    /\ UNCHANGED <<inputs, voltage_mode, params, loaded, sweep, printed, call>>

Next ==
    \/ ReadMode
    \/ ReadParams
    \/ OpenFile
    \/ LoadRow
    \/ CloseFile
    \/ Calibrate
    \/ SweepStep
    \/ WriteOutput

(***************************************************************************)
(* The runs checked: every combination of answers over a well-formed CMF   *)
(* file, and every CMF file of at most MaxRows rows under valid answers.   *)
(***************************************************************************)
GoodFile ==
    <<<<"500", "1", "1", "1">>, <<"600", "1", "2", "0">>, <<"700", "2", "1", "1">>>>

Rows ==
    {<<"500", "1", "1", "1">>, <<"600", "1", "2", "0">>, <<"700", "2", "1", "1">>,
     <<"abc", "1", "1", "1">>, <<"600", "nan", "inf", "1">>,
     <<"600", "1", "1">>, <<>>, <<"700", "1", "1", "1", "1">>}

Files == UNION {[1..n -> Rows] : n \in 0..MaxRows}

SweepAnswers ==
    [selection : {"T", "Voltage", "x", ""},
     min : {"1000", "1500", "2", "0", "abc"},
     max : {"1200", "1501", "6", "inf"},
     step : {"100", "0.25", "2", "0"},
     ref : {"1100", "6", "-100"},
     lum : {"50", "7", "nan"},
     output : {"out"}]

LoadAnswers ==
    [selection : {"t", "V"},
     min : {"1000"},
     max : {"1200"},
     step : {"100"},
     ref : {"1100", "6"},
     lum : {"50"},
     output : {"out"}]

Idle ==
    /\ voltage_mode = None
    /\ min_value = None /\ max_value = None /\ step_size = None
    /\ reference_x = None /\ reference_luminance = None
    /\ in_f = "unopened" /\ next_row = 0 /\ data = None
    /\ calibration_coefficient = None
    /\ cur_value = None /\ voltages = None /\ temp_xyz_rgb = None
    /\ out_f = None
    /\ printed = <<>>
    /\ err = ""

Init ==
    /\ pc = "mode"
    /\ \/ answers \in SweepAnswers /\ csv_file = GoodFile
       \/ answers \in LoadAnswers /\ csv_file \in Files
    /\ Idle
    /\ values = <<>> /\ subint_size = Zero /\ result = None

Spec == Init /\ [][Next]_vars

(***************************************************************************)
(* simpson on its own: every list of at most MaxLen samples drawn from     *)
(* Samples, every width in Widths.                                         *)
(***************************************************************************)
Samples == {-1, 0, 2}

Widths == {1, 3}

\* Lines 64-86: a call of simpson.
CallSimpson ==
    /\ pc = "simpson"
    /\ result' = simpson(values, subint_size)
    /\ pc' = "returned"
    /\ UNCHANGED <<inputs, voltage_mode, params, loaded, sweep, out_f, printed,
                   err, values, subint_size>>

InitSimpson ==
    /\ pc = "simpson"
    /\ answers = None /\ csv_file = <<>>
    /\ Idle
    /\ \E n \in 0..MaxLen : \E ints \in [1..n -> Samples] :
           values = [i \in 1..n |-> F(ints[i])]
    /\ \E w \in Widths : subint_size = F(w)
    /\ result = None

NextSimpson == CallSimpson

SpecSimpson == InitSimpson /\ [][NextSimpson]_vars

(***************************************************************************)
(* Properties of simpson, checked under SpecSimpson.                       *)
(***************************************************************************)

\* The integer a sample stands for (the samples are small integers).
IntOf(a) == IF a[2] >= 0 THEN a[1] * Pow2(a[2]) ELSE a[1] \div Pow2(-a[2])

\* The weight of the sample at 0-based position i of a list of n samples:
\* 1 at both ends, 4 at odd positions, 2 at the even positions between.
SimpsonWeight(i, n) == IF i = 0 \/ i = n - 1 THEN 1 ELSE IF i % 2 = 1 THEN 4 ELSE 2

RECURSIVE WeightedSum(_, _)
WeightedSum(vals, i) ==
    IF i > Len(vals) THEN 0
    ELSE SimpsonWeight(i - 1, Len(vals)) * IntOf(vals[i]) + WeightedSum(vals, i + 1)

Prompts == <<"min", "max", "step", "ref", "lum">>

Unparsable == \E k \in 1..5 : Float(answers[Prompts[k]]).err # ""

SweepConditions ==
    /\ FGt(Float(answers.min).val, Zero)
    /\ FGt(Float(answers.max).val, Zero)
    /\ FGt(Float(answers.step).val, Zero)
    /\ FGt(Float(answers.max).val, Float(answers.min).val)

ParamsRejected == Unparsable \/ ~SweepConditions

\* C1: when a numeric answer does not parse, or one of min_value > 0,
\* max_value > 0, step_size > 0, max_value > min_value fails, the run goes no
\* further than the validation step: the CMF file is never opened, no
\* calibration coefficient is computed, no sample is produced, no output file
\* is written.
C1_AbortsAtValidation ==
    ParamsRejected =>
        /\ pc \in {"mode", "params", "aborted"}
        /\ in_f = "unopened"
        /\ calibration_coefficient = None
        /\ temp_xyz_rgb = <<>>
        /\ out_f = None

\* A run that passed the mode prompt and was aborted on its parameters, all
\* of which parse.
C1_Witness ==
    /\ pc = "aborted"
    /\ printed = <<ParamsMessage>>
    /\ ~Unparsable
    /\ ~SweepConditions

\* The swept value the i-th sample was computed from.
SampleInput(i) == IF voltage_mode THEN voltages[i] ELSE temp_xyz_rgb[i][1]

\* The least of three exponents.
Min3(x, y, z) ==
    IF x <= y /\ x <= z THEN x ELSE IF y <= z THEN y ELSE z

\* The exact value of the float a in units of 2^e0.
Scaled(a, e0) == a[1] * Pow2(a[2] - e0)

\* The unit in which min_value, max_value and step_size are all integers.
Unit == Min3(min_value[2], max_value[2], step_size[2])

\* floor((max_value - min_value) / step_size), in exact arithmetic
StepCount == (Scaled(max_value, Unit) - Scaled(min_value, Unit)) \div Scaled(step_size, Unit)

ExactMultiple ==
    (Scaled(max_value, Unit) - Scaled(min_value, Unit)) % Scaled(step_size, Unit) = 0

\* The float a is exactly n units.
IsExactly(a, n) ==
    IF a[2] >= Unit THEN a[1] * Pow2(a[2] - Unit) = n
    ELSE a[1] = n * Pow2(Unit - a[2])

FiniteParams == IsFinite(min_value) /\ IsFinite(max_value) /\ IsFinite(step_size)

\* C2: when max_value - min_value is exactly k * step_size, the i-th sample
\* is computed from exactly min_value + (i - 1) * step_size, there are never
\* more than k + 1 samples, and exactly k + 1 when the output is written.
C2_ExactSamples ==
    (pc \in {"sweep", "done"} /\ FiniteParams /\ ExactMultiple) =>
        /\ \A i \in 1..Len(temp_xyz_rgb) :
               IsExactly(SampleInput(i),
                         Scaled(min_value, Unit) + (i - 1) * Scaled(step_size, Unit))
        /\ Len(temp_xyz_rgb) <= StepCount + 1
        /\ pc = "done" => Len(temp_xyz_rgb) = StepCount + 1

\* The temperature of the reference point.
RefTemp == IF voltage_mode THEN voltage_to_temp(reference_x) ELSE reference_x

\* Y_ref: the uncalibrated luminance at the reference point.
RefY == get_xyz_from_temp(RefTemp, data).val[2]

\* The sample i was taken at the reference point, and Y_ref is not zero.
AtReference(i) == SampleInput(i) = reference_x /\ RefY # Zero

Succ(a) == IF a[1] + 1 = Pow2(Prec) THEN <<Pow2(Prec - 1), a[2] + 1>>
           ELSE <<a[1] + 1, a[2]>>

Pred(a) == IF a[1] = Pow2(Prec - 1) THEN <<Pow2(Prec) - 1, a[2] - 1>>
           ELSE <<a[1] - 1, a[2]>>

HasFourFields(row) == Len(row) = 4

\* A field that parses as a finite number keeps its value, any other is 0.0.
FiniteOrZero(field) ==
    IF Float(field).err # "" THEN Zero
    ELSE IF Float(field).val \in {NaN, PosInf, NegInf} THEN Zero
    ELSE Float(field).val

\* The 4-field rows of the source, in source order, field by field.
ExpectedTable ==
    [i \in 1..Len(SelectSeq(csv_file, HasFourFields)) |->
        [j \in 1..4 |-> FiniteOrZero(SelectSeq(csv_file, HasFourFields)[i][j])]]

\* C6: once the loading loop has ended, the table is the 4-field rows of the
\* source in source order, finite fields kept and all others 0.0, and no
\* entry of it is NaN or infinite.
C6_LoadedTable ==
    pc \in {"calibrate", "sweep", "done", "crashed"} =>
        /\ data = ExpectedTable
        /\ \A i \in 1..Len(data) : \A j \in 1..4 : IsFinite(data[i][j])

\* A table loaded from a source with a row of the wrong arity and a row with
\* NaN and Inf fields.
C6_Witness ==
    /\ pc = "calibrate"
    /\ \E i \in 1..Len(csv_file) : Len(csv_file[i]) # 4
    /\ \E i \in 1..Len(csv_file) : csv_file[i] = <<"600", "nan", "inf", "1">>
    /\ \E i \in 1..Len(data) : data[i] = <<F(600), Zero, Zero, F(1)>>

\* C7 as stated: no run ends in an unhandled exception.
C7_NoUnhandledError == pc # "crashed"

\* C8 as stated: a calibration coefficient or a sample is only ever computed
\* from a table of at least 3 rows.
C8_AtLeastThreeRows ==
    (calibration_coefficient # None \/ Len(temp_xyz_rgb) > 0) => Len(data) >= 3

\* C9 as stated: on a turn of the sweep loop under finite parameters,
\* cur_value strictly increases and the number of samples stays at most
\* floor((max_value - min_value) / step_size) + 1.
C9_StrictProgress ==
    [][(pc = "sweep" /\ pc' = "sweep" /\ FiniteParams) =>
           /\ FLt(cur_value, cur_value')
           /\ Len(temp_xyz_rgb') <= StepCount + 1]_vars

\* The i-th row of samples in the output file.
WrittenRow(i) == out_f.rows[i + 2]

\* C10: the mode is the one answered at the first prompt; in voltage mode
\* voltages is as long as temp_xyz_rgb and the i-th temperature is
\* voltage_to_temp of the i-th voltage, the voltages being the swept values;
\* in temperature mode voltages is empty and the temperatures are the swept
\* values; the newest sample's XYZ and RGB are computed from its temperature;
\* and output row i holds voltages[i] (voltage mode) and sample i.
C10_ModeGovernsSamples ==
    /\ pc \in {"params", "open", "load", "calibrate", "sweep", "done", "crashed"}
           => voltage_mode = (FirstChar(Lower(answers.selection)).val = "v")
    /\ pc \in {"sweep", "done"} =>
           /\ IF voltage_mode
              THEN /\ Len(voltages) = Len(temp_xyz_rgb)
                   /\ \A i \in 1..Len(temp_xyz_rgb) :
                          temp_xyz_rgb[i][1] = voltage_to_temp(voltages[i])
              ELSE voltages = <<>>
           /\ \A i \in 1..Len(temp_xyz_rgb) :
                  SampleInput(i) = IF i = 1 THEN min_value
                                   ELSE FAdd(SampleInput(i - 1), step_size)
           /\ Len(temp_xyz_rgb) > 0 =>
                  \E last \in {temp_xyz_rgb[Len(temp_xyz_rgb)]} :
                  \E raw \in {get_xyz_from_temp(last[1], data).val} :
                      /\ last[2] = [k \in 1..3 |-> FMul(raw[k], calibration_coefficient)]
                      /\ last[3] = xyz_to_rgb(last[2])
    /\ pc = "done" =>
           /\ Len(out_f.rows) = Len(temp_xyz_rgb) + 2
           /\ \A i \in 1..Len(temp_xyz_rgb) :
                  WrittenRow(i) = (IF voltage_mode THEN <<SampleInput(i)>> ELSE <<>>)
                                  \o <<temp_xyz_rgb[i][1]>>
                                  \o temp_xyz_rgb[i][2] \o temp_xyz_rgb[i][3]

\* A completed sweep in voltage mode with several samples.
C10_Witness ==
    /\ pc = "done"
    /\ voltage_mode = TRUE
    /\ Len(voltages) >= 2
    /\ Len(out_f.rows) = Len(voltages) + 2
====
